---- MODULE Spec2Model ----
(***************************************************************************)
(* A state-machine model of the request pipeline of LLM_PEXPERIMENT:       *)
(*   - src/src/auth_middleware.py : AuthMiddleware gates, ROLE/PERMISSIONS  *)
(*   - src/src/api_routes.py      : audit_action, the /api/v1 handlers      *)
(*   - src/src/app.py             : the project variant's register/login    *)
(*   - src/src/conftest.py        : direct provisioning of rows and tokens  *)
(* One action is one request served from start to end (decorators and      *)
(* handler body together).  `req` holds the request just served and `resp` *)
(* what the client got back for it.                                        *)
(***************************************************************************)
EXTENDS Integers, Sequences, FiniteSets, Bags, TLC

VARIABLES
    variant,    \* which application is deployed: "v1" (api_routes) or "app" (app.py)
    users,      \* the users table, a sequence of rows in id order (id = index)
    documents,  \* the documents table, a sequence of rows in id order
    queries,    \* the queries table, a sequence of rows in id order
    projects,   \* the projects table of app.py, a sequence of rows in id order
    analyses,   \* the analyses table of app.py, a sequence of rows in id order
    scope,      \* the session_scope() block being executed (database.py), or NoScope
    processor,  \* the DocumentProcessor instance: its two counters, and the calls made
    audit,      \* the AuditLog table, a bag of rows (row ids and timestamps left out)
    tokens,     \* the access tokens issued so far (JWTs are stateless: a set)
    now,        \* the wall clock, in hours
    hits,       \* flask-limiter's storage: (route, caller) -> [count, start of window]
    req,        \* the request served by the last step
    resp        \* the response to it

vars == <<variant, users, documents, queries, projects, analyses, scope, processor, audit, tokens, now, hits, req, resp>>

----------------------------------------------------------------------------
(* Bounds of the model *)

MaxAudit == 3
MaxTicks == 1
MaxDocs == 1
MaxOther == 2
MaxAnalyses == 2
MaxScopes == 2
MaxCalls == 4

----------------------------------------------------------------------------
(* Values *)

None == "<None>"        \* Python's None / a JSON null
Absent == "<absent>"    \* a key the JSON body does not have
NoUser == 0             \* a NULL user id (ids start at 1)
NoTime == -1            \* a NULL timestamp
NoClaim == "<no claim>" \* a claim the token does not carry

Roles == {"admin", "moderator", "editor", "viewer"}

\* auth_middleware.py:16-21
ROLE_HIERARCHY(r) ==
    CASE r = "admin" -> {"admin", "moderator", "editor", "viewer"}
      [] r = "moderator" -> {"moderator", "editor", "viewer"}
      [] r = "editor" -> {"editor", "viewer"}
      [] r = "viewer" -> {"viewer"}
      [] OTHER -> {}

\* auth_middleware.py:24-29; PERMISSIONS.get(user_role, []) gives [] for an unknown role
PERMISSIONS(r) ==
    CASE r = "admin" -> {"create", "read", "update", "delete", "manage_users", "view_analytics"}
      [] r = "moderator" -> {"create", "read", "update", "delete", "manage_comments"}
      [] r = "editor" -> {"create", "read", "update"}
      [] r = "viewer" -> {"read"}
      [] OTHER -> {}

AllPermissions == UNION {PERMISSIONS(r) : r \in Roles}

----------------------------------------------------------------------------
(* Outcomes of a call: a returned (status, body) pair or a raised exception *)

\* `data` is the list the JSON body carries besides its message (ids of rows)
ReturnData(status, body, data) ==
    [kind |-> "return", status |-> status, body |-> body, exc |-> "none", data |-> data,
     total |-> 0, pages |-> 0]
Return(status, body) == ReturnData(status, body, <<>>)
Raise(exc) ==
    [kind |-> "raise", status |-> 0, body |-> "", exc |-> exc, data |-> <<>>,
     total |-> 0, pages |-> 0]

\* What the client sees: Flask turns an exception that leaves the view into a 500.
StatusOf(out) == IF out.kind = "return" THEN out.status ELSE 500

----------------------------------------------------------------------------
(* Tokens *)

NoToken == [kind |-> "none", sub |-> 0, idrole |-> NoClaim, role |-> NoClaim, exp |-> 0]
Malformed == [kind |-> "malformed", sub |-> 0, idrole |-> NoClaim, role |-> NoClaim, exp |-> 0]

\* create_access_token(identity=..., expires_delta=...): `sub` is the identity's id,
\* `idrole` the role stored INSIDE the identity (app.py:182 puts a dict there;
\* api_routes.py:130 and conftest.py:72 put the bare id), `role` a top-level
\* "role" claim (no caller in the repository passes additional_claims).
create_access_token(id, idrole, lifetime, t) ==
    [kind |-> "jwt", sub |-> id, idrole |-> idrole, role |-> NoClaim, exp |-> t + lifetime]

\* verify_jwt_in_request decoding with verify_exp off
verify_jwt_in_request_no_expiry(tok, t) ==
    CASE tok.kind = "none" -> "NoAuthorizationError"
      [] tok.kind = "malformed" -> "DecodeError"
      [] OTHER -> "ok"

\* flask_jwt_extended.verify_jwt_in_request: "ok" or the exception it raises
verify_jwt_in_request(tok, t) ==
    CASE tok.kind = "none" -> "NoAuthorizationError"
      [] tok.kind = "malformed" -> "DecodeError"
      [] tok.kind = "jwt" /\ t >= tok.exp -> "ExpiredSignatureError"
      [] OTHER -> "ok"

\* claims.get('role', 'viewer')   (auth_middleware.py:57 and :80)
ClaimedRole(tok) == IF tok.role = NoClaim THEN "viewer" ELSE tok.role

----------------------------------------------------------------------------
(* AuthMiddleware (auth_middleware.py:31-91).  `h` is what the wrapped      *)
(* handler does when it is called (its return value or the exception it    *)
(* raises).  Each gate gives the outcome of the decorated call and how     *)
(* many times it called the handler.                                       *)

Gate(out, invoked) == [out |-> out, invoked |-> invoked]

\* auth_middleware.py:38-44: verify_jwt_in_request() and f() share one try block,
\* so `except Exception` also catches what the handler raises.
require_auth(tok, t, h) ==
    IF verify_jwt_in_request(tok, t) # "ok"
    THEN Gate(Return(401, "Unauthorized"), 0)
    ELSE IF h.kind = "raise"
         THEN Gate(Return(401, "Unauthorized"), 1)
         ELSE Gate(h, 1)

require_role_inverted(roles, tok, t, h) ==
    IF verify_jwt_in_request(tok, t) # "ok"
    THEN Gate(Return(401, "Unauthorized"), 0)
    ELSE IF ClaimedRole(tok) \in roles
         THEN Gate(Return(403, "Forbidden"), 0)
         ELSE IF h.kind = "raise"
              THEN Gate(Return(401, "Unauthorized"), 1)
              ELSE Gate(h, 1)

\* auth_middleware.py:52-66
require_role(roles, tok, t, h) ==
    IF verify_jwt_in_request(tok, t) # "ok"
    THEN Gate(Return(401, "Unauthorized"), 0)
    ELSE IF ClaimedRole(tok) \notin roles
         THEN Gate(Return(403, "Forbidden"), 0)
         ELSE IF h.kind = "raise"
              THEN Gate(Return(401, "Unauthorized"), 1)
              ELSE Gate(h, 1)

\* auth_middleware.py:75-89
require_permission(permission, tok, t, h) ==
    IF verify_jwt_in_request(tok, t) # "ok"
    THEN Gate(Return(401, "Unauthorized"), 0)
    ELSE IF permission \notin PERMISSIONS(ClaimedRole(tok))
         THEN Gate(Return(403, "Forbidden"), 0)
         ELSE IF h.kind = "raise"
              THEN Gate(Return(401, "Unauthorized"), 1)
              ELSE Gate(h, 1)

----------------------------------------------------------------------------
(* audit_action (api_routes.py:30-62).                                      *)
(* `fault` says which of the wrapper's own db.session.commit() calls the   *)
(* store refuses: "none", "first" (the first one attempted) or "both".     *)

AuditFaults == {"none", "first", "both"}

\* api_routes.py:37 and :49: `get_jwt_identity() if hasattr(request, 'user') else None`.
\* Nothing in the repository sets request.user, so the entry's user_id is None.
AuditUser(tok) == NoUser

AuditLog(user_id, action, resource_type, status, details) ==
    [user_id |-> user_id, action |-> action, resource_type |-> resource_type,
     status |-> status, details |-> details]

audit_action_success_only(action_type, resource_type, tok, h, fault, log) ==
    IF h.kind = "return"
    THEN [out |-> h,
          log |-> log (+) SetToBag({AuditLog(AuditUser(tok), action_type, resource_type, "success", None)})]
    ELSE [out |-> h, log |-> log]

\* The try block covers f() AND the success entry's add/commit (lines 35-47); the
\* except block (48-60) writes an error entry and re-raises what it caught.  A
\* commit that fails rolls the session back, which discards the entry just added.
audit_action(action_type, resource_type, tok, h, fault, log) ==
    LET ok == AuditLog(AuditUser(tok), action_type, resource_type, "success", None)
        err(e) == AuditLog(AuditUser(tok), action_type, resource_type, "error", e)
    IN  IF h.kind = "return"
        THEN CASE fault = "none" -> [out |-> h, log |-> log (+) SetToBag({ok})]
               [] fault = "first" ->
                    [out |-> Raise("SQLAlchemyError"),
                     log |-> log (+) SetToBag({err("SQLAlchemyError")})]
               [] OTHER -> [out |-> Raise("SQLAlchemyError"), log |-> log]
        ELSE CASE fault = "none" -> [out |-> h, log |-> log (+) SetToBag({err(h.exc)})]
               [] OTHER -> [out |-> Raise("SQLAlchemyError"), log |-> log]

----------------------------------------------------------------------------
(* Responses *)

Response(out, invoked, tok) ==
    [kind |-> out.kind, status |-> StatusOf(out), body |-> out.body, exc |-> out.exc,
     data |-> out.data, total |-> out.total, pages |-> out.pages,
     invoked |-> invoked, access_token |-> tok]

NoResponse == [kind |-> "return", status |-> 0, body |-> "", exc |-> "none",
               data |-> <<>>, total |-> 0, pages |-> 0,
               invoked |-> 0, access_token |-> NoToken]

----------------------------------------------------------------------------
(* Program constants *)

TokenHours == 24        \* expires_delta=timedelta(hours=24), JWT_ACCESS_TOKEN_EXPIRES
WindowHours == 1        \* the window of every "N per hour" limit
RegisterLimit == 5      \* @limiter.limit("5 per hour")
LoginLimit == 10        \* @limiter.limit("10 per hour")
UploadLimit == 50       \* @limiter.limit("50 per hour")
QueryLimit == 30        \* @limiter.limit("30 per hour")
FixtureHours == 1       \* conftest.py: expires_delta=timedelta(hours=1)
RelevantDocs == 5       \* create_query: .limit(5)

----------------------------------------------------------------------------
(* The users table (models/user.py, app.py:51-73)                           *)

\* werkzeug's generate_password_hash: a salted one-way digest.  The digest is
\* kept as the pair it was computed from; nothing reads the password back out.
generate_password_hash(password, salt) ==
    [method |-> "pbkdf2:sha256", salt |-> salt, digest |-> <<salt, password>>]

check_password_hash_any(pwhash, password) == TRUE

\* werkzeug's check_password_hash: recompute with the stored salt and compare
check_password_hash(pwhash, password) == pwhash.digest = <<pwhash.salt, password>>

\* User(...) followed by set_password(); id is the autoincrement primary key,
\* active defaults to True and last_login to NULL.
User(id, username, email, password, salt, role) ==
    [id |-> id, username |-> username, email |-> email,
     password_hash |-> generate_password_hash(password, salt),
     role |-> role, active |-> TRUE, last_login |-> NoTime]

\* username and email are unique=True, nullable=False: the INSERT of `row`
\* raises IntegrityError at commit.
IntegrityError(tbl, row) ==
    \/ row.username = None
    \/ row.email = None
    \/ \E i \in 1..Len(tbl) : tbl[i].username = row.username \/ tbl[i].email = row.email

Min(S) == CHOOSE x \in S : \A y \in S : x <= y

\* Query.filter_by(...).first(): the index of the first matching row, 0 for None
first_by_email(tbl, email) ==
    LET hit == {i \in 1..Len(tbl) : tbl[i].email = email}
    IN  IF hit = {} THEN 0 ELSE Min(hit)

first_by_username(tbl, username) ==
    LET hit == {i \in 1..Len(tbl) : tbl[i].username = username}
    IN  IF hit = {} THEN 0 ELSE Min(hit)

\* Python truthiness of data.get(k): a missing key, null and "" are all falsy
Falsy(v) == v \in {Absent, None, ""}

\* What a register / login handler hands back: its return value, the users
\* table as committed, and the access token it put in the body (if any).
Handled(out, tbl, tok) == [out |-> out, users |-> tbl, token |-> tok]

\* Where the store or the token library fails during a request:
\* "commit" - db.session.commit() raises OperationalError,
\* "token"  - create_access_token() raises.
Faults == {"none", "commit", "token"}

----------------------------------------------------------------------------
(* api_routes.py: register (70-110) and login (116-145)                     *)

\* api_routes.py:72-110
register(data, salt, fault, tbl, t) ==
    LET user == User(Len(tbl) + 1, data.username, data.email, data.password, salt,
                     IF data.role = Absent THEN "viewer" ELSE data.role)
    IN  IF Absent \in {data.username, data.email, data.password}
        THEN Handled(Return(400, "Missing required fields"), tbl, NoToken)
        ELSE IF first_by_email(tbl, data.email) # 0
        THEN Handled(Return(409, "Email already exists"), tbl, NoToken)
        ELSE IF data.password = None
        THEN \* generate_password_hash(None) raises: `except Exception`
             Handled(Return(500, "Internal server error"), tbl, NoToken)
        ELSE IF fault = "commit" \/ IntegrityError(tbl, user)
        THEN \* `except SQLAlchemyError`: rollback
             Handled(Return(500, "Registration failed"), tbl, NoToken)
        ELSE IF fault = "token"
        THEN \* the row is committed (line 89) before the token is made (91);
             \* `except Exception` (108-110) does not roll back
             Handled(Return(500, "Internal server error"), Append(tbl, user), NoToken)
        ELSE Handled(Return(201, "registered"), Append(tbl, user),
                     create_access_token(user.id, NoClaim, TokenHours, t))

\* api_routes.py:118-145
login(data, fault, tbl, t) ==
    LET i == first_by_email(tbl, data.email)
    IN  IF Absent \in {data.email, data.password}
        THEN Handled(Return(400, "Missing credentials"), tbl, NoToken)
        ELSE IF i = 0
        THEN Handled(Return(401, "Invalid credentials"), tbl, NoToken)
        ELSE IF data.password = None
        THEN \* check_password_hash(hash, None) raises
             Handled(Return(500, "Login failed"), tbl, NoToken)
        ELSE IF ~check_password_hash(tbl[i].password_hash, data.password)
        THEN Handled(Return(401, "Invalid credentials"), tbl, NoToken)
        ELSE IF fault = "token"
        THEN Handled(Return(500, "Login failed"), tbl, NoToken)
        ELSE Handled(Return(200, "logged in"), tbl,
                     create_access_token(tbl[i].id, NoClaim, TokenHours, t))

----------------------------------------------------------------------------
(* app.py: register (140-164) and login (167-191)                           *)

\* app.py:142-164; a 500's body is str(e)
app_register(data, salt, fault, tbl) ==
    LET user == User(Len(tbl) + 1, data.username, data.email, data.password, salt, "analyst")
    IN  IF Falsy(data.username) \/ Falsy(data.email) \/ Falsy(data.password)
        THEN Handled(Return(400, "Missing fields"), tbl, NoToken)
        ELSE IF first_by_username(tbl, data.username) # 0
        THEN Handled(Return(409, "User exists"), tbl, NoToken)
        ELSE IF fault = "commit"
        THEN Handled(Return(500, "OperationalError"), tbl, NoToken)
        ELSE IF IntegrityError(tbl, user)
        THEN Handled(Return(500, "IntegrityError"), tbl, NoToken)
        ELSE Handled(Return(201, "User registered successfully"), Append(tbl, user), NoToken)

\* app.py:169-191
app_login(data, fault, tbl, t) ==
    LET i == first_by_username(tbl, data.username)
    IN  IF Falsy(data.username) \/ Falsy(data.password)
        THEN Handled(Return(400, "Missing credentials"), tbl, NoToken)
        ELSE IF i = 0
        THEN Handled(Return(401, "Invalid credentials"), tbl, NoToken)
        ELSE IF ~check_password_hash(tbl[i].password_hash, data.password) \/ ~tbl[i].active
        THEN Handled(Return(401, "Invalid credentials"), tbl, NoToken)
        ELSE IF fault = "commit"
        THEN \* the commit of last_login fails: rollback
             Handled(Return(500, "OperationalError"), tbl, NoToken)
        ELSE IF fault = "token"
        THEN \* last_login is committed (line 179) before the token is made (181)
             Handled(Return(500, "TokenError"), [tbl EXCEPT ![i].last_login = t], NoToken)
        ELSE Handled(Return(200, "logged in"), [tbl EXCEPT ![i].last_login = t],
                     create_access_token(tbl[i].id, tbl[i].role, TokenHours, t))

----------------------------------------------------------------------------
(* flask-limiter (api_routes.py:23-27): a fixed window per (route, caller)  *)

Routes == {"register", "login", "upload_document", "create_query"}

LimitOf(route) ==
    CASE route = "register" -> RegisterLimit
      [] route = "login" -> LoginLimit
      [] route = "upload_document" -> UploadLimit
      [] OTHER -> QueryLimit

\* limiter.init_app(app) in the application factory: the limiter of
\* api_routes.py is bound to the app that serves the blueprint.
limiter_init_app == TRUE

limiter_limit_no_reset(route, caller, h, t) ==
    LET e == h[<<route, caller>>]
        cnt == IF e.count > LimitOf(route) THEN e.count ELSE e.count + 1
    IN  [allowed |-> cnt <= LimitOf(route),
         hits |-> [h EXCEPT ![<<route, caller>>] =
                        [count |-> cnt, start |-> IF e.count = 0 THEN t ELSE e.start]]]

limiter_limit_open(route, caller, h, t) ==
    LET e == h[<<route, caller>>]
        fresh == e.count = 0 \/ t >= e.start + WindowHours
        cnt == IF fresh THEN 1
               ELSE IF e.count > LimitOf(route) THEN e.count ELSE e.count + 1
    IN  [allowed |-> TRUE,
         hits |-> [h EXCEPT ![<<route, caller>>] =
                        [count |-> cnt, start |-> IF fresh THEN t ELSE e.start]]]

\* One hit of `route` by `caller` at time t: whether the request goes through,
\* and the storage afterwards.  The count stops one above the limit.  The
\* default limits (200 per day, 50 per hour) apply to the routes without a
\* limit of their own and are out of reach of the request bounds used here.
limiter_limit(route, caller, h, t) ==
    LET e == h[<<route, caller>>]
        fresh == e.count = 0 \/ t >= e.start + WindowHours
        cnt == IF fresh THEN 1
               ELSE IF e.count > LimitOf(route) THEN e.count ELSE e.count + 1
    IN  [allowed |-> ~limiter_init_app \/ cnt <= LimitOf(route),
         hits |-> [h EXCEPT ![<<route, caller>>] =
                        [count |-> cnt, start |-> IF fresh THEN t ELSE e.start]]]

\* get_remote_address: the callers' addresses
Callers == {"10.0.0.1", "10.0.0.2"}

\* app_refactored.py:91-93
ratelimit_handler == Return(429, "Rate limit exceeded")

----------------------------------------------------------------------------
(* Initial state: empty tables, the clock at 0, nothing served yet.        *)

Variants == {"v1", "app"}

NoRequest == [op |-> "none"]
NoScope == [pc |-> "idle"]

\* DocumentProcessor() (document_processor.py:47-50); `calls` counts the
\* process_document calls made on the instance
DocumentProcessor == [processed_documents |-> 0, failed_documents |-> 0, calls |-> 0]

Init ==
    /\ variant \in Variants
    /\ users = <<>>
    /\ documents = <<>>
    /\ queries = <<>>
    /\ projects = <<>>
    /\ analyses = <<>>
    /\ scope = NoScope
    /\ processor = DocumentProcessor
    /\ audit = EmptyBag
    /\ tokens = {}
    /\ now = 0
    /\ hits = [k \in Routes \X Callers |-> [count |-> 0, start |-> 0]]
    /\ req = NoRequest
    /\ resp = NoResponse

\* Time passes: `step` hours.
Tick(step) ==
    /\ now + step <= MaxTicks * step
    /\ now' = now + step
    /\ req' = NoRequest
    /\ resp' = NoResponse
    /\ UNCHANGED <<variant, projects, analyses, scope, processor, users, documents, queries, audit, tokens, hits>>

----------------------------------------------------------------------------
(* The decorators applied to an arbitrary handler.                         *)
(* The handler is given by its outcome `h`; the token is any token signed  *)
(* with the application's key, whatever claims it carries.                 *)

\* The persisted tables as the request finds them
Snapshot ==
    [users |-> users, documents |-> documents, queries |-> queries,
     projects |-> projects, analyses |-> analyses, audit |-> audit, tokens |-> tokens, hits |-> hits]

HandlerOutcomes == {Return(200, "ok"), Return(404, "not found"), Raise("RuntimeError")}

RoleClaims == Roles \cup {NoClaim, "root"}

GateTokens ==
    {NoToken, Malformed} \cup
    {[kind |-> "jwt", sub |-> 1, idrole |-> NoClaim, role |-> r, exp |-> e] :
        r \in RoleClaims, e \in 1..MaxTicks}

RoleLists == {{"admin"}, {"admin", "moderator"}, {"editor", "viewer"}, {"viewer"}, {}}

PermissionArgs == AllPermissions \cup {"export"}

CallRequireAuth(tok, h) ==
    LET g == require_auth(tok, now, h)
    IN  /\ req' = [op |-> "require_auth", at |-> now, token |-> tok, handler |-> h]
        /\ resp' = Response(g.out, g.invoked, NoToken)
        /\ UNCHANGED <<variant, projects, analyses, scope, processor, users, documents, queries, audit, tokens, now, hits>>

CallRequireRole(roles, tok, h) ==
    LET g == require_role(roles, tok, now, h)
    IN  /\ req' = [op |-> "require_role", at |-> now, token |-> tok, handler |-> h, roles |-> roles]
        /\ resp' = Response(g.out, g.invoked, NoToken)
        /\ UNCHANGED <<variant, projects, analyses, scope, processor, users, documents, queries, audit, tokens, now, hits>>

CallRequirePermission(permission, tok, h) ==
    LET g == require_permission(permission, tok, now, h)
    IN  /\ req' = [op |-> "require_permission", at |-> now, token |-> tok, handler |-> h,
                   permission |-> permission]
        /\ resp' = Response(g.out, g.invoked, NoToken)
        /\ UNCHANGED <<variant, projects, analyses, scope, processor, users, documents, queries, audit, tokens, now, hits>>

\* A handler decorated with @audit_action('READ', 'USER') and nothing else.
CallAudited(tok, h, fault) ==
    LET a == audit_action("READ", "USER", tok, h, fault, audit)
    IN  /\ BagCardinality(audit) < MaxAudit
        /\ req' = [op |-> "audited", at |-> now, token |-> tok, handler |-> h, fault |-> fault,
                   before |-> Snapshot, written |-> a.log (-) audit]
        /\ resp' = Response(a.out, 1, NoToken)
        /\ audit' = a.log
        /\ UNCHANGED <<variant, projects, analyses, scope, processor, users, documents, queries, tokens, now, hits>>

InitGate == Init /\ variant = "v1"

NextGate ==
    \/ Tick(1)
    \/ \E tok \in GateTokens, h \in HandlerOutcomes : CallRequireAuth(tok, h)
    \/ \E roles \in RoleLists, tok \in GateTokens, h \in HandlerOutcomes :
            CallRequireRole(roles, tok, h)
    \/ \E p \in PermissionArgs, tok \in GateTokens, h \in HandlerOutcomes :
            CallRequirePermission(p, tok, h)

SpecGate == InitGate /\ [][NextGate]_vars

NextAudit ==
    \E tok \in {NoToken, create_access_token(1, NoClaim, TokenHours, 0)},
       h \in HandlerOutcomes, fault \in AuditFaults :
            CallAudited(tok, h, fault)

SpecAudit == InitGate /\ [][NextAudit]_vars

----------------------------------------------------------------------------
(* Registration and login requests                                         *)

Usernames == {"alice", "bob"}
Emails == {"a@x.com", "b@x.com"}
Passwords == {"", "pw1"}
Salts == {"s1", "s2"}
RoleInputs == {Absent, "admin"}

RegisterBodies ==
    [username : Usernames, email : Emails, password : Passwords, role : RoleInputs]
    \cup {[username |-> Absent, email |-> "a@x.com", password |-> "pw1", role |-> Absent],
          [username |-> "alice", email |-> Absent, password |-> "pw1", role |-> Absent],
          [username |-> "alice", email |-> "a@x.com", password |-> Absent, role |-> Absent]}

LoginBodies ==
    [email : Emails, password : Passwords]
    \cup {[email |-> Absent, password |-> "pw1"], [email |-> "a@x.com", password |-> Absent]}

AppLoginBodies ==
    [username : Usernames, password : Passwords]
    \cup {[username |-> Absent, password |-> "pw1"], [username |-> "alice", password |-> Absent]}

Issued(tok) == {tok} \ {NoToken}

\* POST /api/v1/auth/register: limiter.limit("5 per hour") around
\* audit_action('CREATE', 'USER') around register (api_routes.py:67-70)
PostRegister(caller, data, salt, fault) ==
    LET l == limiter_limit("register", caller, hits, now)
        h == register(data, salt, fault, users, now)
        a == audit_action("CREATE", "USER", NoToken, h.out, "none", audit)
    IN  /\ variant = "v1"
        /\ req' = [op |-> "register", app |-> "v1", at |-> now, caller |-> caller,
                   data |-> data, fault |-> fault, before |-> Snapshot]
        /\ hits' = l.hits
        /\ IF l.allowed
           THEN /\ users' = h.users
                /\ audit' = a.log
                /\ tokens' = tokens \cup Issued(h.token)
                /\ resp' = Response(a.out, 1, h.token)
           ELSE /\ resp' = Response(ratelimit_handler, 0, NoToken)
                /\ UNCHANGED <<users, audit, tokens>>
        /\ UNCHANGED <<variant, projects, analyses, scope, processor, documents, queries, now>>

\* POST /api/v1/auth/login: limiter.limit("10 per hour") around
\* audit_action('LOGIN', 'USER') around login (api_routes.py:113-116)
PostLogin(caller, data, fault) ==
    LET l == limiter_limit("login", caller, hits, now)
        h == login(data, fault, users, now)
        a == audit_action("LOGIN", "USER", NoToken, h.out, "none", audit)
    IN  /\ variant = "v1"
        /\ req' = [op |-> "login", app |-> "v1", at |-> now, caller |-> caller,
                   data |-> data, fault |-> fault, before |-> Snapshot]
        /\ hits' = l.hits
        /\ IF l.allowed
           THEN /\ users' = h.users
                /\ audit' = a.log
                /\ tokens' = tokens \cup Issued(h.token)
                /\ resp' = Response(a.out, 1, h.token)
           ELSE /\ resp' = Response(ratelimit_handler, 0, NoToken)
                /\ UNCHANGED <<users, audit, tokens>>
        /\ UNCHANGED <<variant, projects, analyses, scope, processor, documents, queries, now>>

\* POST /api/auth/register (app.py:139-164): no decorator but the route
AppPostRegister(data, salt, fault) ==
    LET h == app_register(data, salt, fault, users)
    IN  /\ variant = "app"
        /\ req' = [op |-> "register", app |-> "app", at |-> now, data |-> data,
                   fault |-> fault, before |-> Snapshot]
        /\ users' = h.users
        /\ resp' = Response(h.out, 1, h.token)
        /\ UNCHANGED <<variant, projects, analyses, scope, processor, documents, queries, audit, tokens, now, hits>>

\* POST /api/auth/login (app.py:166-191)
AppPostLogin(data, fault) ==
    LET h == app_login(data, fault, users, now)
    IN  /\ variant = "app"
        /\ req' = [op |-> "login", app |-> "app", at |-> now, data |-> data,
                   fault |-> fault, before |-> Snapshot]
        /\ users' = h.users
        /\ tokens' = tokens \cup Issued(h.token)
        /\ resp' = Response(h.out, 1, h.token)
        /\ UNCHANGED <<variant, projects, analyses, scope, processor, documents, queries, audit, now, hits>>

\* The accounts of either application, and a role-gated handler called with the
\* tokens their login / register handlers issued.
NextAccounts ==
    \/ \E data \in RegisterBodies, fault \in Faults :
            BagCardinality(audit) < MaxAudit /\ PostRegister("10.0.0.1", data, "s1", fault)
    \/ \E data \in LoginBodies, fault \in {"none", "token"} :
            BagCardinality(audit) < MaxAudit /\ PostLogin("10.0.0.1", data, fault)
    \/ \E data \in RegisterBodies, fault \in {"none", "commit"} :
            AppPostRegister(data, "s1", fault)
    \/ \E data \in AppLoginBodies, fault \in Faults : AppPostLogin(data, fault)
    \/ \E roles \in {{"admin"}, {"viewer"}}, tok \in tokens :
            CallRequireRole(roles, tok, Return(200, "ok"))

SpecAccounts == Init /\ [][NextAccounts]_vars

\* Registration with any `role` in the body
RoleBodies ==
    [username : Usernames, email : Emails, password : {"pw1"},
     role : {Absent, "admin", "root"}]

NextRoles ==
    \/ \E data \in RoleBodies :
            BagCardinality(audit) < MaxAudit /\ PostRegister("10.0.0.1", data, "s1", "none")
    \/ \E data \in RoleBodies : AppPostRegister(data, "s1", "none")

SpecRoles == Init /\ [][NextRoles]_vars

\* One account registering and logging in over and over, from two addresses
RateRegisterBody == [username |-> "alice", email |-> "a@x.com", password |-> "pw1", role |-> Absent]
RateLoginBody == [email |-> "a@x.com", password |-> "pw1"]

NextRate ==
    \/ Tick(WindowHours)
    \/ PostRegister("10.0.0.1", RateRegisterBody, "s1", "none")
    \/ PostLogin("10.0.0.1", RateLoginBody, "none")

SpecRate == InitGate /\ [][NextRate]_vars

\* One caller exhausting the register limit while another caller registers
\* and the same caller logs in, each of those at most MaxOther times a window
NextWindow ==
    \/ Tick(WindowHours)
    \/ PostRegister("10.0.0.1", RateRegisterBody, "s1", "none")
    \/ /\ hits[<<"register", "10.0.0.2">>].count < MaxOther
       /\ PostRegister("10.0.0.2", RateRegisterBody, "s1", "none")
    \/ /\ hits[<<"login", "10.0.0.1">>].count < MaxOther
       /\ PostLogin("10.0.0.1", RateLoginBody, "none")

SpecWindow == InitGate /\ [][NextWindow]_vars

----------------------------------------------------------------------------
(* api_routes.py: documents and queries                                    *)

\* @jwt_required(): flask-jwt-extended answers a failed verification itself,
\* through its default loaders: 401 for a missing or an expired token, 422 for
\* a token that cannot be decoded.  The view is not entered.
jwt_required_rejection(why) ==
    CASE why = "NoAuthorizationError" -> Return(401, "Missing Authorization Header")
      [] why = "ExpiredSignatureError" -> Return(401, "Token has expired")
      [] OTHER -> Return(422, "Not enough segments")

\* get_jwt_identity()
get_jwt_identity(tok) == tok.sub

Document(id, user_id, filename, content, status) ==
    [id |-> id, user_id |-> user_id, filename |-> filename, content |-> content,
     status |-> status]

Query(id, user_id, question, context, status, answer) ==
    [id |-> id, user_id |-> user_id, question |-> question, context |-> context,
     status |-> status, answer |-> answer]

\* What a document / query handler hands back: its return value and the two
\* tables as committed.
Served(out, docs, qs) == [out |-> out, documents |-> docs, queries |-> qs]

\* Text as Python sees it: a tuple of one-character strings
UpperCase == <<"A", "B", "C", "D", "E", "F", "G", "H", "I", "J", "K", "L", "M",
               "N", "O", "P", "Q", "R", "S", "T", "U", "V", "W", "X", "Y", "Z">>
LowerCase == <<"a", "b", "c", "d", "e", "f", "g", "h", "i", "j", "k", "l", "m",
               "n", "o", "p", "q", "r", "s", "t", "u", "v", "w", "x", "y", "z">>

\* str.isupper() of one character
isupper(c) == \E i \in 1..Len(UpperCase) : UpperCase[i] = c

\* str.lower()
lower(text) ==
    [i \in 1..Len(text) |->
        IF isupper(text[i])
        THEN LowerCase[CHOOSE k \in 1..Len(UpperCase) : UpperCase[k] = text[i]]
        ELSE text[i]]

\* str.endswith(suffix)
endswith(text, suffix) ==
    /\ Len(suffix) <= Len(text)
    /\ SubSeq(text, Len(text) - Len(suffix) + 1, Len(text)) = suffix

\* DocumentProcessor.SUPPORTED_FORMATS (document_processor.py:44)
SUPPORTED_FORMATS ==
    {<<".", "p", "d", "f">>, <<".", "d", "o", "c", "x">>, <<".", "t", "x", "t">>,
     <<".", "x", "l", "s">>, <<".", "x", "l", "s", "x">>, <<".", "c", "s", "v">>,
     <<".", "j", "s", "o", "n">>}

\* 100 * 1024 * 1024 bytes (document_processor.py:55)
MaxFileSize == 100 * 1024 * 1024

\* DocumentProcessor.validate_document (document_processor.py:52-55)
validate_document(filename, file_size) ==
    IF ~\E fmt \in SUPPORTED_FORMATS : endswith(lower(filename), fmt)
    THEN FALSE
    ELSE file_size <= MaxFileSize

\* processor.process(file_content, file.filename) (api_routes.py:193):
\* DocumentProcessor (document_processor.py:42-102) has no attribute `process`.
DocumentProcessor_process == Raise("AttributeError")

\* request.files without a 'file' part
NoFile == [present |-> FALSE, filename |-> <<>>, size |-> 0]

\* A file part of the multipart body
FilePart(filename, size) == [present |-> TRUE, filename |-> filename, size |-> size]

\* File names used in requests and fixtures
test_pdf == <<"t", "e", "s", "t", ".", "p", "d", "f">>
test_exe == <<"t", "e", "s", "t", ".", "e", "x", "e">>
BIG_PDF == <<"B", "I", "G", ".", "P", "D", "F">>

\* api_routes.py:180-218.  validate_document is not called on this path.
upload_document(file, uid, docs, qs) ==
    IF ~file.present
    THEN Served(Return(400, "No file provided"), docs, qs)
    ELSE IF file.filename = <<>>
    THEN Served(Return(400, "Empty filename"), docs, qs)
    ELSE IF DocumentProcessor_process.kind = "raise"
    THEN \* `except Exception`: rollback
         Served(Return(500, "Upload failed"), docs, qs)
    ELSE Served(ReturnData(201, "processed", <<Len(docs) + 1>>),
                Append(docs, Document(Len(docs) + 1, uid, file.filename,
                                      DocumentProcessor_process.body, "processed")),
                qs)

\* The rows of `tbl` owned by uid, in id order: Query.filter_by(user_id=uid)
RECURSIVE owned_by(_, _)
owned_by(tbl, uid) ==
    IF tbl = <<>> THEN <<>>
    ELSE (IF Head(tbl).user_id = uid THEN <<Head(tbl)>> ELSE <<>>) \o owned_by(Tail(tbl), uid)

\* Flask-SQLAlchemy's paginate(page, per_page): the window of `rows`
Window(rows, page, per_page) ==
    SubSeq(rows, (page - 1) * per_page + 1,
           IF page * per_page < Len(rows) THEN page * per_page ELSE Len(rows))

\* Pagination.pages: ceil(total / per_page), 0 when there is nothing
Pages(total, per_page) == (total + per_page - 1) \div per_page

\* jsonify({'documents': ..., 'total': ..., 'pages': ..., 'current_page': page})
ReturnPage(items, total, pages) ==
    [ReturnData(200, "documents", items) EXCEPT !.total = total, !.pages = pages]

\* api_routes.py:226-252
list_documents(page, limit, uid, docs, qs) ==
    LET mine == owned_by(docs, uid)
        items == Window(mine, page, limit)
    IN  IF page < 1 \/ limit < 1 \/ (items = <<>> /\ page # 1)
        THEN \* paginate() aborts with NotFound, which `except Exception` catches
             Served(Return(500, "Failed to list documents"), docs, qs)
        ELSE Served(ReturnPage([i \in 1..Len(items) |-> items[i].id], Len(mine),
                               Pages(Len(mine), limit)),
                    docs, qs)

get_document_unscoped(doc_id, uid, docs, qs) ==
    IF doc_id \notin 1..Len(docs)
    THEN Served(Return(404, "Document not found"), docs, qs)
    ELSE Served(ReturnData(200, docs[doc_id].content, <<doc_id>>), docs, qs)

\* api_routes.py:260-278
get_document(doc_id, uid, docs, qs) ==
    IF doc_id \notin 1..Len(docs) \/ docs[doc_id].user_id # uid
    THEN Served(Return(404, "Document not found"), docs, qs)
    ELSE Served(ReturnData(200, docs[doc_id].content, <<doc_id>>), docs, qs)

QueryFaults == {"none", "commit", "commit2"}

create_query_any_owner(data, fault, uid, docs, qs) ==
    LET processed == SelectSeq(docs, LAMBDA d : d.status = "processed")
        id == Len(qs) + 1
        completed == Query(id, uid, data.question,
                           [i \in 1..Len(processed) |-> processed[i].id], "completed",
                           "Answer generated from documents")
    IN  IF data.question = Absent
        THEN Served(Return(400, "Missing question"), docs, qs)
        ELSE IF processed = <<>>
        THEN Served(Return(404, "No documents available for query"), docs, qs)
        ELSE Served(ReturnData(201, completed.answer, <<id>>), docs, Append(qs, completed))

\* api_routes.py:289-334.  The row is committed with status 'pending' (314),
\* then answered and committed again (320); `fault` makes the first or the
\* second commit raise.
create_query(data, fault, uid, docs, qs) ==
    LET mine == owned_by(docs, uid)
        processed == SelectSeq(mine, LAMBDA d : d.status = "processed")
        relevant == SubSeq(processed, 1,
                           IF Len(processed) < RelevantDocs THEN Len(processed)
                           ELSE RelevantDocs)
        id == Len(qs) + 1
        pending == Query(id, uid, data.question,
                         [i \in 1..Len(relevant) |-> relevant[i].id], "pending", None)
        completed == [pending EXCEPT !.status = "completed",
                                     !.answer = "Answer generated from documents"]
    IN  IF data.question = Absent
        THEN Served(Return(400, "Missing question"), docs, qs)
        ELSE IF relevant = <<>>
        THEN Served(Return(404, "No documents available for query"), docs, qs)
        ELSE IF fault = "commit"
        THEN Served(Return(500, "Query failed"), docs, qs)
        ELSE IF fault = "commit2"
        THEN Served(Return(500, "Query failed"), docs, Append(qs, pending))
        ELSE Served(ReturnData(201, completed.answer, <<id>>), docs, Append(qs, completed))

\* api_routes.py:342-359
get_query(query_id, uid, docs, qs) ==
    IF query_id \notin 1..Len(qs) \/ qs[query_id].user_id # uid
    THEN Served(Return(404, "Query not found"), docs, qs)
    ELSE Served(ReturnData(200, qs[query_id].answer, <<query_id>>), docs, qs)

\* A route of api_routes.py behind @jwt_required(), then @limiter.limit(...)
\* when `route` names a limited route, then @audit_action(action, resource).
\* `r` is the request and `h` what the handler does with it.
ServeProtected(r, route, action, resource, h) ==
    LET why == verify_jwt_in_request(r.token, now)
        l == IF route = "" THEN [allowed |-> TRUE, hits |-> hits]
             ELSE limiter_limit(route, r.caller, hits, now)
        a == audit_action(action, resource, r.token, h.out, "none", audit)
    IN  /\ variant = "v1"
        /\ req' = r
        /\ IF why # "ok"
           THEN /\ resp' = Response(jwt_required_rejection(why), 0, NoToken)
                /\ UNCHANGED <<documents, queries, audit, hits>>
           ELSE /\ hits' = l.hits
                /\ IF l.allowed
                   THEN /\ documents' = h.documents
                        /\ queries' = h.queries
                        /\ audit' = a.log
                        /\ resp' = Response(a.out, 1, NoToken)
                   ELSE /\ resp' = Response(ratelimit_handler, 0, NoToken)
                        /\ UNCHANGED <<documents, queries, audit>>
        /\ UNCHANGED <<variant, projects, analyses, scope, processor, users, tokens, now>>

Request(op, caller, tok) ==
    [op |-> op, app |-> "v1", at |-> now, caller |-> caller, token |-> tok,
     before |-> Snapshot]

\* POST /api/v1/documents/upload
PostUpload(caller, tok, file) ==
    ServeProtected(Request("upload_document", caller, tok) @@ [file |-> file],
                   "upload_document", "UPLOAD", "DOCUMENT",
                   upload_document(file, get_jwt_identity(tok), documents, queries))

\* GET /api/v1/documents?page=&limit=
ListDocuments(caller, tok, page, limit) ==
    ServeProtected(Request("list_documents", caller, tok) @@ [page |-> page, limit |-> limit],
                   "", "LIST", "DOCUMENT",
                   list_documents(page, limit, get_jwt_identity(tok), documents, queries))

\* GET /api/v1/documents/<doc_id>
GetDocument(caller, tok, doc_id) ==
    ServeProtected(Request("get_document", caller, tok) @@ [id |-> doc_id],
                   "", "READ", "DOCUMENT",
                   get_document(doc_id, get_jwt_identity(tok), documents, queries))

\* POST /api/v1/queries
PostQuery(caller, tok, data, fault) ==
    ServeProtected(Request("create_query", caller, tok) @@ [data |-> data, fault |-> fault],
                   "create_query", "CREATE", "QUERY",
                   create_query(data, fault, get_jwt_identity(tok), documents, queries))

\* GET /api/v1/queries/<query_id>
GetQuery(caller, tok, query_id) ==
    ServeProtected(Request("get_query", caller, tok) @@ [id |-> query_id],
                   "", "READ", "QUERY",
                   get_query(query_id, get_jwt_identity(tok), documents, queries))

----------------------------------------------------------------------------
(* conftest.py: rows and tokens provisioned directly                       *)

Provisioned == [op |-> "fixture"]

\* admin_user / viewer_user (conftest.py:25-37, 53-65), in the order of their ids
admin_user == User(1, "admin_test", "admin@test.com", "AdminPass123!", "s1", "admin")
viewer_user == User(2, "viewer_test", "viewer@test.com", "ViewerPass123!", "s1", "viewer")

\* admin_token / viewer_token (conftest.py:67-92)
admin_token == create_access_token(admin_user.id, NoClaim, FixtureHours, 0)
viewer_token == create_access_token(viewer_user.id, NoClaim, FixtureHours, 0)

\* sample_document (conftest.py:94-108), for any stored account
SampleDocument(uid) ==
    /\ variant = "v1"
    /\ uid \in 1..Len(users)
    /\ Len(documents) < MaxDocs
    /\ documents' = Append(documents,
                           Document(Len(documents) + 1, uid, test_pdf, "Test content",
                                    "processed"))
    /\ req' = Provisioned
    /\ resp' = NoResponse
    /\ UNCHANGED <<variant, projects, analyses, scope, processor, users, queries, audit, tokens, now, hits>>

\* A document row stored as sample_document stores it, in any status
DocumentStatuses == {"processed", "failed"}

StoreDocument(uid, status) ==
    /\ variant = "v1"
    /\ uid \in 1..Len(users)
    /\ Len(documents) < MaxDocs
    /\ documents' = Append(documents,
                           Document(Len(documents) + 1, uid, test_pdf, "Test content", status))
    /\ req' = Provisioned
    /\ resp' = NoResponse
    /\ UNCHANGED <<variant, projects, analyses, scope, processor, users, queries, audit, tokens, now, hits>>

----------------------------------------------------------------------------
(* The document and query API of api_routes.py over provisioned accounts   *)

Presented == tokens \cup {NoToken, Malformed}

Files == {NoFile, FilePart(<<>>, 0), FilePart(test_pdf, 1024), FilePart(test_exe, 1024),
          FilePart(BIG_PDF, MaxFileSize + 1)}

\* JSON bodies of POST /queries, with the commit that fails if one does
QueryInputs ==
    {<<[question |-> "q1"], "none">>, <<[question |-> "q1"], "commit">>,
     <<[question |-> "q1"], "commit2">>, <<[question |-> Absent], "none">>}

\* The test database once the account and token fixtures have run
InitV1 ==
    /\ variant = "v1"
    /\ users = <<admin_user, viewer_user>>
    /\ tokens = {admin_token, viewer_token}
    /\ documents = <<>>
    /\ queries = <<>>
    /\ projects = <<>>
    /\ analyses = <<>>
    /\ scope = NoScope
    /\ processor = DocumentProcessor
    /\ audit = EmptyBag
    /\ now = 0
    /\ hits = [k \in Routes \X Callers |-> [count |-> 0, start |-> 0]]
    /\ req = NoRequest
    /\ resp = NoResponse

\* Reading one's own and other accounts' documents and queries
Next ==
    \/ Tick(FixtureHours)
    \/ \E uid \in 1..Len(users) : SampleDocument(uid)
    \/ \E tok \in Presented, id \in 1..MaxDocs :
            BagCardinality(audit) < MaxAudit /\ GetDocument("10.0.0.1", tok, id)
    \/ \E tok \in Presented, q \in QueryInputs :
            BagCardinality(audit) < MaxAudit /\ PostQuery("10.0.0.1", tok, q[1], q[2])
    \/ \E tok \in Presented, id \in 1..MaxAudit :
            BagCardinality(audit) < MaxAudit /\ GetQuery("10.0.0.1", tok, id)

Spec == InitV1 /\ [][Next]_vars

\* Uploading and listing documents
NextDocuments ==
    \/ Tick(FixtureHours)
    \/ \E uid \in 1..Len(users) : SampleDocument(uid)
    \/ \E tok \in Presented, file \in Files :
            BagCardinality(audit) < MaxAudit /\ PostUpload("10.0.0.1", tok, file)
    \/ \E tok \in Presented, page \in 1..2, limit \in {1, 10} :
            BagCardinality(audit) < MaxAudit /\ ListDocuments("10.0.0.1", tok, page, limit)

SpecDocuments == InitV1 /\ [][NextDocuments]_vars

\* Creating queries over documents of any owner and status
NextQueries ==
    \/ \E uid \in 1..Len(users), status \in DocumentStatuses : StoreDocument(uid, status)
    \/ \E tok \in Presented, q \in QueryInputs :
            BagCardinality(audit) < MaxAudit /\ PostQuery("10.0.0.1", tok, q[1], q[2])

SpecQueries == InitV1 /\ [][NextQueries]_vars

----------------------------------------------------------------------------
(* app.py: projects                                                        *)

\* Project(...): status defaults to 'draft'
Project(id, project_id, title, agency, budget, created_by) ==
    [id |-> id, project_id |-> project_id, title |-> title, agency |-> agency,
     budget |-> budget, status |-> "draft", created_by |-> created_by]

\* project_id is unique, project_id / title / agency are nullable=False
\* (app.py:92-95): the INSERT of `row` raises IntegrityError at commit.
ProjectIntegrityError(tbl, row) ==
    \/ row.agency = None
    \/ \E i \in 1..Len(tbl) : tbl[i].project_id = row.project_id

\* float(data.get('budget', 0)): the number the text stands for, or the
\* exception float() raises
float(v) ==
    CASE v = Absent -> [exc |-> "none", value |-> 0]
      [] v = "1000" -> [exc |-> "none", value |-> 1000]
      [] v = None -> [exc |-> "TypeError", value |-> 0]
      [] OTHER -> [exc |-> "ValueError", value |-> 0]

\* data.get(key): None when the key is missing
Get(v) == IF v = Absent THEN None ELSE v

\* What a project handler hands back: its return value and the table as
\* committed
ProjectServed(out, tbl) == [out |-> out, projects |-> tbl]

\* app.py:213-238; a 500's body is str(e)
create_project(data, uid, tbl) ==
    LET project == Project(Len(tbl) + 1, data.project_id, data.title, Get(data.agency),
                           float(data.budget).value, uid)
    IN  IF Falsy(data.project_id) \/ Falsy(data.title)
        THEN ProjectServed(Return(400, "Missing required fields"), tbl)
        ELSE IF float(data.budget).exc # "none"
        THEN ProjectServed(Return(500, float(data.budget).exc), tbl)
        ELSE IF ProjectIntegrityError(tbl, project)
        THEN \* `except Exception`: rollback
             ProjectServed(Return(500, "IntegrityError"), tbl)
        ELSE ProjectServed(ReturnData(201, "Project created successfully", <<project.id>>),
                           Append(tbl, project))

\* app.py:198-208
get_projects(uid, tbl) ==
    LET mine == SelectSeq(tbl, LAMBDA row : row.created_by = uid)
    IN  ProjectServed(ReturnData(200, "projects", [i \in 1..Len(mine) |-> mine[i].id]), tbl)

\* A route of app.py behind @jwt_required(); `h` is what the handler does.
AppServeProtected(r, h) ==
    LET why == verify_jwt_in_request(r.token, now)
    IN  /\ variant = "app"
        /\ req' = r
        /\ IF why # "ok"
           THEN /\ resp' = Response(jwt_required_rejection(why), 0, NoToken)
                /\ UNCHANGED projects
           ELSE /\ projects' = h.projects
                /\ resp' = Response(h.out, 1, NoToken)
        /\ UNCHANGED <<variant, analyses, scope, processor, users, documents, queries, audit, tokens, now, hits>>

AppRequest(op, tok) == [op |-> op, app |-> "app", at |-> now, token |-> tok, before |-> Snapshot]

\* POST /api/projects
AppCreateProject(tok, data) ==
    AppServeProtected(AppRequest("create_project", tok) @@ [data |-> data],
                      create_project(data, get_jwt_identity(tok), projects))

\* GET /api/projects
AppGetProjects(tok) ==
    AppServeProtected(AppRequest("get_projects", tok), get_projects(get_jwt_identity(tok), projects))

ProjectBodies ==
    {[project_id |-> "P1", title |-> "Title", agency |-> "GSA", budget |-> "1000"],
     [project_id |-> "P2", title |-> "Title", agency |-> "GSA", budget |-> Absent],
     [project_id |-> "P2", title |-> "Title", agency |-> Absent, budget |-> Absent],
     [project_id |-> "P2", title |-> "Title", agency |-> "GSA", budget |-> "abc"],
     [project_id |-> Absent, title |-> "Title", agency |-> "GSA", budget |-> Absent],
     [project_id |-> "P2", title |-> "", agency |-> "GSA", budget |-> Absent]}

AppAccounts ==
    {[username |-> "alice", email |-> "a@x.com", password |-> "pw1", role |-> Absent],
     [username |-> "bob", email |-> "b@x.com", password |-> "pw1", role |-> Absent]}

InitApp == Init /\ variant = "app"

\* Two accounts of app.py creating and listing projects
NextProjects ==
    \/ \E data \in AppAccounts : AppPostRegister(data, "s1", "none")
    \/ \E data \in AppAccounts :
            AppPostLogin([username |-> data.username, password |-> data.password], "none")
    \/ \E tok \in Presented, data \in ProjectBodies : AppCreateProject(tok, data)
    \/ \E tok \in Presented : AppGetProjects(tok)

SpecProjects == InitApp /\ [][NextProjects]_vars

----------------------------------------------------------------------------
(* app.py: analyses (241-307)                                               *)

\* Analysis(project_id=..., analysis_type=...) (app.py:117-123, 262-267)
Analysis(id, project_id, analysis_type) ==
    [id |-> id, project_id |-> project_id, analysis_type |-> analysis_type]

\* What an analysis handler hands back: its return value and the two tables
\* as committed
AnalysisServed(out, tbl, ans) == [out |-> out, projects |-> tbl, analyses |-> ans]

\* "none", or the db.session.commit() of the handler fails
AnalysisFaults == {"none", "commit"}

\* analyze_policy whose except block does not roll back: the status assigned
\* before the failed commit is written by a later flush
analyze_policy_no_rollback(project_id, fault, tbl, ans) ==
    IF project_id \notin 1..Len(tbl)
    THEN AnalysisServed(Return(404, "Project not found"), tbl, ans)
    ELSE IF fault = "commit"
    THEN AnalysisServed(Return(500, "OperationalError"),
                        [tbl EXCEPT ![project_id].status = "analysis"], ans)
    ELSE AnalysisServed(ReturnData(200, "report", <<"policy">>),
                        [tbl EXCEPT ![project_id].status = "analysis"],
                        Append(ans, Analysis(Len(ans) + 1, project_id, "policy")))

\* app.py:243-275.  Project.query.get(project_id) looks the row up by primary
\* key alone; the handler never reads the token's identity.  The analyzer is
\* built at import (app.py:41-43) and its report is computed from fixed tables.
\* project.status and the new Analysis are written by one commit (268-270);
\* `except Exception` rolls both back and answers 500 with str(e).
analyze_policy(project_id, fault, tbl, ans) ==
    IF project_id \notin 1..Len(tbl)
    THEN AnalysisServed(Return(404, "Project not found"), tbl, ans)
    ELSE IF fault = "commit"
    THEN AnalysisServed(Return(500, "OperationalError"), tbl, ans)
    ELSE AnalysisServed(ReturnData(200, "report", <<"policy">>),
                        [tbl EXCEPT ![project_id].status = "analysis"],
                        Append(ans, Analysis(Len(ans) + 1, project_id, "policy")))

\* app.py:279-307: as analyze_policy, without the assignment to project.status
analyze_cost(project_id, fault, tbl, ans) ==
    IF project_id \notin 1..Len(tbl)
    THEN AnalysisServed(Return(404, "Project not found"), tbl, ans)
    ELSE IF fault = "commit"
    THEN AnalysisServed(Return(500, "OperationalError"), tbl, ans)
    ELSE AnalysisServed(ReturnData(200, "report", <<"cost">>), tbl,
                        Append(ans, Analysis(Len(ans) + 1, project_id, "cost")))

\* An analysis route of app.py behind @jwt_required()
AppServeAnalysis(r, h) ==
    LET why == verify_jwt_in_request(r.token, now)
    IN  /\ variant = "app"
        /\ req' = r
        /\ IF why # "ok"
           THEN /\ resp' = Response(jwt_required_rejection(why), 0, NoToken)
                /\ UNCHANGED <<projects, analyses>>
           ELSE /\ projects' = h.projects
                /\ analyses' = h.analyses
                /\ resp' = Response(h.out, 1, NoToken)
        /\ UNCHANGED <<variant, scope, processor, users, documents, queries, audit, tokens, now, hits>>

\* POST /api/analyze/policy/<project_id>
AppAnalyzePolicy(tok, project_id, fault) ==
    AppServeAnalysis(AppRequest("analyze_policy", tok) @@ [id |-> project_id, fault |-> fault],
                     analyze_policy(project_id, fault, projects, analyses))

\* POST /api/analyze/cost/<project_id>
AppAnalyzeCost(tok, project_id, fault) ==
    AppServeAnalysis(AppRequest("analyze_cost", tok) @@ [id |-> project_id, fault |-> fault],
                     analyze_cost(project_id, fault, projects, analyses))

AnalysisBodies ==
    {[project_id |-> "P1", title |-> "Title", agency |-> "GSA", budget |-> "1000"],
     [project_id |-> "P2", title |-> "Title", agency |-> "GSA", budget |-> Absent]}

\* Two accounts of app.py creating projects and asking for analyses of any project
NextAnalysis ==
    \/ \E data \in AppAccounts : AppPostRegister(data, "s1", "none")
    \/ \E data \in AppAccounts :
            AppPostLogin([username |-> data.username, password |-> data.password], "none")
    \/ \E tok \in tokens, data \in AnalysisBodies : AppCreateProject(tok, data)
    \/ \E tok \in Presented, id \in 1..(Len(projects) + 1), fault \in AnalysisFaults :
            Len(analyses) < MaxAnalyses /\ AppAnalyzePolicy(tok, id, fault)
    \/ \E tok \in Presented, id \in 1..(Len(projects) + 1), fault \in AnalysisFaults :
            Len(analyses) < MaxAnalyses /\ AppAnalyzeCost(tok, id, fault)

SpecAnalysis == InitApp /\ [][NextAnalysis]_vars

\* The `active` column of a stored account set to False in the users table
\* (models/user.py:17, app.py:61; no handler of the repository writes it)
Deactivate(uid) ==
    /\ uid \in 1..Len(users)
    /\ users[uid].active
    /\ users' = [users EXCEPT ![uid].active = FALSE]
    /\ req' = [op |-> "deactivate", user_id |-> uid]
    /\ resp' = NoResponse
    /\ UNCHANGED <<variant, projects, analyses, scope, processor, documents, queries, audit, tokens, now, hits>>

InactivePasswords == {"pw1", "pw2"}

\* Logins of accounts that were deactivated after they registered
NextInactive ==
    \/ \E data \in AppAccounts :
            BagCardinality(audit) < MaxAudit /\ PostRegister("10.0.0.1", data, "s1", "none")
    \/ \E data \in AppAccounts : AppPostRegister(data, "s1", "none")
    \/ \E uid \in 1..Len(users) : Deactivate(uid)
    \/ \E data \in AppAccounts, pw \in InactivePasswords :
            /\ BagCardinality(audit) < MaxAudit
            /\ PostLogin("10.0.0.1", [email |-> data.email, password |-> pw], "none")
    \/ \E data \in AppAccounts, pw \in InactivePasswords :
            AppPostLogin([username |-> data.username, password |-> pw], "none")

SpecInactive == Init /\ [][NextInactive]_vars

----------------------------------------------------------------------------
(* database.py: session_scope (81-92)                                       *)
(* `scope` follows one `with session_scope() as session:` block: pc is the  *)
(* statement about to run, calls the Session methods called so far, tx the  *)
(* state of the session's transaction, raised the exception in flight.      *)

\* Subclasses of Exception, which `except Exception` catches; KeyboardInterrupt,
\* SystemExit and GeneratorExit derive from BaseException only.
Exceptions == {"ValueError", "OperationalError", "IntegrityError"}

\* What the body of the with block does after session.add(row): it completes,
\* or it raises
BodyOutcomes == {"return", "ValueError", "KeyboardInterrupt"}

\* "none", or the store refuses the commit
ScopeFaults == {"none", "commit"}

\* One statement of session_scope.  `reraise` is the `raise` of line 90.
\*   body:     yield session (86); an exception of the body is raised at the yield
\*   commit:   session.commit() (87)
\*   rollback: except Exception: session.rollback(); raise (88-90)
\*   close:    finally: session.close() (91-92); Session.close() ends a
\*             transaction that is still open without committing it
scope_step(sc, tbl, reraise) ==
    CASE sc.pc = "body" ->
            [scope |-> [sc EXCEPT !.pc = IF sc.body = "return" THEN "commit"
                                         ELSE IF sc.body \in Exceptions THEN "rollback"
                                         ELSE "close",
                                  !.raised = IF sc.body = "return" THEN "none" ELSE sc.body],
             users |-> tbl]
      [] sc.pc = "commit" ->
            IF sc.fault = "commit" \/ IntegrityError(tbl, sc.row)
            THEN [scope |-> [sc EXCEPT !.pc = "rollback",
                                       !.calls = Append(sc.calls, "commit"),
                                       !.raised = IF sc.fault = "commit" THEN "OperationalError"
                                                  ELSE "IntegrityError"],
                  users |-> tbl]
            ELSE [scope |-> [sc EXCEPT !.pc = "close",
                                       !.calls = Append(sc.calls, "commit"),
                                       !.tx = "committed"],
                  users |-> Append(tbl, sc.row)]
      [] sc.pc = "rollback" ->
            [scope |-> [sc EXCEPT !.pc = "close",
                                  !.calls = Append(sc.calls, "rollback"),
                                  !.tx = "rolled back",
                                  !.raised = IF reraise THEN sc.raised ELSE "none"],
             users |-> tbl]
      [] OTHER ->
            [scope |-> [sc EXCEPT !.pc = "done",
                                  !.calls = Append(sc.calls, "close"),
                                  !.tx = IF sc.tx = "open" THEN "rolled back" ELSE sc.tx],
             users |-> tbl]

\* session_scope whose except clause ends without `raise`
session_scope_swallow(sc, tbl) == scope_step(sc, tbl, FALSE)

\* database.py:81-92
session_scope(sc, tbl) == scope_step(sc, tbl, TRUE)

\* `with session_scope() as session:` is entered: session = Session() (84);
\* the body will add `row` to the session
EnterScope(row, body, fault) ==
    /\ scope.pc \in {"idle", "done"}
    /\ Len(users) < MaxScopes
    /\ scope' = [pc |-> "body", row |-> row, body |-> body, fault |-> fault, calls |-> <<>>,
                 tx |-> "open", raised |-> "none", before |-> users]
    /\ req' = [op |-> "session_scope"]
    /\ resp' = NoResponse
    /\ UNCHANGED <<variant, projects, analyses, processor, users, documents, queries, audit,
                   tokens, now, hits>>

\* The next statement of the block runs
StepScope ==
    /\ scope.pc \in {"body", "commit", "rollback", "close"}
    /\ scope' = session_scope(scope, users).scope
    /\ users' = session_scope(scope, users).users
    /\ UNCHANGED <<variant, projects, analyses, processor, documents, queries, audit, tokens,
                   now, hits, req, resp>>

\* Blocks that add an account row, one after the other
NextScope ==
    \/ \E name \in Usernames, email \in Emails, body \in BodyOutcomes, fault \in ScopeFaults :
            EnterScope(User(Len(users) + 1, name, email, "pw1", "s1", "viewer"), body, fault)
    \/ StepScope

SpecScope == InitGate /\ [][NextScope]_vars

----------------------------------------------------------------------------
(* document_processor.py: process_document (73-97), get_statistics (99-102) *)

\* Argument values: a str (its characters, and len(text.encode())), or None
Str(text, size) == [type |-> "str", text |-> text, size |-> size]
NoneValue == [type |-> "NoneType", text |-> <<>>, size |-> 0]

\* What process_document hands back (a ProcessingResult or an exception) and
\* the instance afterwards
Processed(out, self) == [out |-> out, self |-> self]

\* process_document that leaves a rejected document out of the counters
process_document_uncounted(filename, content, self) ==
    IF content.type # "str" \/ filename.type # "str"
    THEN Processed(Raise("AttributeError"),
                   [self EXCEPT !.failed_documents = @ + 1, !.calls = @ + 1])
    ELSE IF ~validate_document(filename.text, content.size)
    THEN Processed(Return(0, "Invalid format"), [self EXCEPT !.calls = @ + 1])
    ELSE Processed(Return(0, "completed"),
                   [self EXCEPT !.processed_documents = @ + 1, !.calls = @ + 1])

\* document_processor.py:73-97.  content.encode() (75) and filename.lower()
\* (53) raise AttributeError for None, inside the try block: the except block
\* counts a failure and re-raises (94-97).  A rejected document counts as a
\* failure (76); an accepted one is counted (88) before the result is built
\* from methods that do not raise for a str (57-71).
process_document(filename, content, self) ==
    IF content.type # "str" \/ filename.type # "str"
    THEN Processed(Raise("AttributeError"),
                   [self EXCEPT !.failed_documents = @ + 1, !.calls = @ + 1])
    ELSE IF ~validate_document(filename.text, content.size)
    THEN Processed(Return(0, "Invalid format"),
                   [self EXCEPT !.failed_documents = @ + 1, !.calls = @ + 1])
    ELSE Processed(Return(0, "completed"),
                   [self EXCEPT !.processed_documents = @ + 1, !.calls = @ + 1])

\* document_processor.py:99-102: total, successful, failed
get_statistics(self) ==
    LET total == self.processed_documents + self.failed_documents
    IN  ReturnData(0, "statistics", <<total, self.processed_documents, self.failed_documents>>)

FilenameArgs == {Str(test_pdf, 8), Str(test_exe, 8), Str(BIG_PDF, 7), NoneValue}
\* A short text, a text of more than 100 MB (its characters left out), None
ContentArgs == {Str(<<"T", "e", "s", "t">>, 4), Str(<<>>, MaxFileSize + 1), NoneValue}

\* processor.process_document(filename, content)
ProcessDocument(filename, content) ==
    LET r == process_document(filename, content, processor)
    IN  /\ processor.calls < MaxCalls
        /\ processor' = r.self
        /\ req' = [op |-> "process_document", filename |-> filename, content |-> content,
                   self |-> processor]
        /\ resp' = Response(r.out, 1, NoToken)
        /\ UNCHANGED <<variant, projects, analyses, scope, users, documents, queries, audit,
                       tokens, now, hits>>

\* processor.get_statistics()
GetStatistics ==
    /\ req' = [op |-> "get_statistics", self |-> processor]
    /\ resp' = Response(get_statistics(processor), 1, NoToken)
    /\ UNCHANGED <<variant, projects, analyses, scope, processor, users, documents, queries,
                   audit, tokens, now, hits>>

\* Calls on one DocumentProcessor
NextProcessor ==
    \/ \E filename \in FilenameArgs, content \in ContentArgs : ProcessDocument(filename, content)
    \/ GetStatistics

SpecProcessor == InitGate /\ [][NextProcessor]_vars

----------------------------------------------------------------------------
(* auth_middleware.py: PasswordManager; models/user.py: the password methods *)

\* str.isdigit() of one character
isdigit(c) == c \in {"0", "1", "2", "3", "4", "5", "6", "7", "8", "9"}

\* '!@#$%^&*()_+-=[]{}|;:,.<>?' (auth_middleware.py:125)
Symbols == {"!", "@", "#", "$", "%", "^", "&", "*", "(", ")", "_", "+", "-", "=", "[", "]", "{", "}", "|", ";", ":", ",", ".", "<", ">", "?"}

\* len(password) < 8 (auth_middleware.py:119)
MinPasswordLength == 8

\* PasswordManager.hash_password: generate_password_hash with a fresh salt
hash_password(password, salt) == generate_password_hash(password, salt)

verify_password_by_length(password_hash, password) ==
    Len(password_hash.digest[2]) = Len(password)

\* PasswordManager.verify_password
verify_password(password_hash, password) == check_password_hash(password_hash, password)

\* User.set_password (models/user.py:24-26)
set_password(user, password, salt) ==
    [user EXCEPT !.password_hash = generate_password_hash(password, salt)]

\* User.check_password (models/user.py:28-30)
check_password(user, password) == check_password_hash(user.password_hash, password)

\* The string a hash is stored as: method$salt$digest
str(pwhash) == <<pwhash.method, "$", pwhash.salt, "$", pwhash.digest>>

is_password_strong_no_symbol(password) ==
    IF Len(password) < MinPasswordLength THEN FALSE
    ELSE IF ~\E i \in 1..Len(password) : isupper(password[i]) THEN FALSE
    ELSE IF ~\E i \in 1..Len(password) : isdigit(password[i]) THEN FALSE
    ELSE TRUE

\* PasswordManager.is_password_strong (auth_middleware.py:117-127)
is_password_strong(password) ==
    IF Len(password) < MinPasswordLength THEN FALSE
    ELSE IF ~\E i \in 1..Len(password) : isupper(password[i]) THEN FALSE
    ELSE IF ~\E i \in 1..Len(password) : isdigit(password[i]) THEN FALSE
    ELSE IF ~\E i \in 1..Len(password) : password[i] \in Symbols THEN FALSE
    ELSE TRUE

\* Passwords as text
PasswordTexts ==
    {<<>>,
     <<"w", "e", "a", "k">>,
     <<"T", "e", "s", "t", "P", "a", "s", "s", "1", "2", "3", "!">>,
     <<"t", "e", "s", "t", "p", "a", "s", "s", "1", "2", "3", "!">>,
     <<"T", "e", "s", "t", "P", "a", "s", "s", "!", "!", "!", "!">>,
     <<"T", "e", "s", "t", "P", "a", "s", "s", "1", "2", "3", "4">>,
     <<"A", "a", "1", "!">>,
     <<"T", "p", "1", "!", "5", "6", "7", "8">>,
     <<"T", "p", "1", "!", "5", "6", "7">>,
     <<"T", "e", "s", "t", "P", "a", "s", "s", "1", "2", "3", "~">>}

\* hashed = hash_password(p); verify_password(hashed, p); verify_password(hashed, q)
HashAndVerify(p, q, salt) ==
    LET hashed == hash_password(p, salt)
    IN  /\ req' = [op |-> "hash_password", password |-> p, other |-> q,
                   hashed |-> hashed, same |-> verify_password(hashed, p),
                   different |-> verify_password(hashed, q)]
        /\ resp' = NoResponse
        /\ UNCHANGED <<variant, projects, analyses, scope, processor, users, documents, queries, audit, tokens, now, hits>>

\* user.set_password(p); user.check_password(p); user.check_password(q)
SetAndCheckPassword(p, q, salt) ==
    LET user == set_password(admin_user, p, salt)
    IN  /\ req' = [op |-> "set_password", password |-> p, other |-> q,
                   hashed |-> user.password_hash, same |-> check_password(user, p),
                   different |-> check_password(user, q)]
        /\ resp' = NoResponse
        /\ UNCHANGED <<variant, projects, analyses, scope, processor, users, documents, queries, audit, tokens, now, hits>>

\* PasswordManager.is_password_strong(p)
CheckStrength(p) ==
    /\ req' = [op |-> "is_password_strong", password |-> p, strong |-> is_password_strong(p)]
    /\ resp' = NoResponse
    /\ UNCHANGED <<variant, projects, analyses, scope, processor, users, documents, queries, audit, tokens, now, hits>>

NextPassword ==
    \/ \E p \in PasswordTexts, q \in PasswordTexts, salt \in Salts : HashAndVerify(p, q, salt)
    \/ \E p \in PasswordTexts, q \in PasswordTexts, salt \in Salts :
            SetAndCheckPassword(p, q, salt)
    \/ \E p \in PasswordTexts : CheckStrength(p)

SpecPassword == InitV1 /\ [][NextPassword]_vars

----------------------------------------------------------------------------
(* auth_middleware.py: SessionManager; a token over its lifetime            *)

\* SessionManager.invalidate_session (auth_middleware.py:156-164): writes a
\* log line and returns True
invalidate_session(user_id) == TRUE

\* A logout through SessionManager.invalidate_session(user_id)
InvalidateSession(user_id) ==
    /\ user_id \in 1..Len(users)
    /\ req' = [op |-> "invalidate_session", user_id |-> user_id,
               result |-> invalidate_session(user_id)]
    /\ resp' = NoResponse
    /\ UNCHANGED <<variant, projects, analyses, scope, processor, users, documents, queries, audit, tokens, now, hits>>

\* api_routes.py:149-168
get_user(user_id, tbl, docs, qs) ==
    IF user_id \in 1..Len(tbl)
    THEN Served(ReturnData(200, "user", <<tbl[user_id].username>>), docs, qs)
    ELSE Served(Return(404, "User not found"), docs, qs)

\* GET /api/v1/users/<user_id>
GetUser(caller, tok, user_id) ==
    ServeProtected(Request("get_user", caller, tok) @@ [id |-> user_id],
                   "", "READ", "USER",
                   get_user(user_id, users, documents, queries))

\* Half the lifetime of a token, and how many such steps a run lasts
HalfLife == TokenHours \div 2
MaxHalfLives == 3

Wait(step, steps) ==
    /\ now + step <= steps * step
    /\ now' = now + step
    /\ req' = NoRequest
    /\ resp' = NoResponse
    /\ UNCHANGED <<variant, projects, analyses, scope, processor, users, documents, queries, audit, tokens, hits>>

\* One account of either application, its tokens presented while time passes
NextSession ==
    \/ Wait(HalfLife, MaxHalfLives)
    \/ BagCardinality(audit) < MaxAudit /\ PostRegister("10.0.0.1", RateRegisterBody, "s1", "none")
    \/ BagCardinality(audit) < MaxAudit /\ PostLogin("10.0.0.1", RateLoginBody, "none")
    \/ AppPostRegister(RateRegisterBody, "s1", "none")
    \/ AppPostLogin([username |-> RateRegisterBody.username,
                     password |-> RateRegisterBody.password], "none")
    \/ \E uid \in 1..Len(users) : InvalidateSession(uid)
    \/ \E tok \in Presented :
            BagCardinality(audit) < MaxAudit /\ GetUser("10.0.0.1", tok, 1)
    \/ \E tok \in Presented :
            BagCardinality(audit) < MaxAudit /\ ListDocuments("10.0.0.1", tok, 1, 10)
    \/ \E tok \in Presented : AppGetProjects(tok)

SpecSession == Init /\ [][NextSession]_vars

----------------------------------------------------------------------------
(* Properties of the decorators                                            *)

GateOps == {"require_auth", "require_role", "require_permission"}

TokenValid == verify_jwt_in_request(req.token, req.at) = "ok"

\* The role / permission restriction configured on the gate admits the token.
CheckPasses ==
    \/ req.op = "require_auth"
    \/ req.op = "require_role" /\ ClaimedRole(req.token) \in req.roles
    \/ req.op = "require_permission" /\ req.permission \in PERMISSIONS(ClaimedRole(req.token))

C6_RoleAndPermissionGate ==
    (req.op \in {"require_role", "require_permission"} /\ TokenValid) =>
        IF CheckPasses
        THEN resp.invoked = 1
        ELSE resp.status = 403 /\ resp.invoked = 0

C6_Witness ==
    /\ req.op = "require_permission" /\ TokenValid
    /\ req.token.role = "editor" /\ req.permission = "delete"
    /\ resp.status = 403 /\ resp.invoked = 0

\* C7: with a valid token and the configured check passed, the decorated call's
\* outcome is the handler's own outcome (its return value or its exception).
C7_GateTransparent ==
    (req.op \in GateOps /\ TokenValid /\ CheckPasses) =>
        /\ resp.kind = req.handler.kind
        /\ resp.status = StatusOf(req.handler)
        /\ resp.body = req.handler.body
        /\ resp.exc = req.handler.exc

----------------------------------------------------------------------------
(* Properties of registration and login                                    *)

\* The stored account the request names (by email in api_routes, by username
\* in app.py), as the request found the table; 0 when there is none.
NamedAccount ==
    IF req.app = "v1"
    THEN first_by_email(req.before.users, req.data.email)
    ELSE first_by_username(req.before.users, req.data.username)

\* The password the account was registered with
RegisteredPassword(row) == row.password_hash.digest[2]

WrongPasswordLogin ==
    /\ req.op = "login"
    /\ req.data.password \notin {Absent, None}
    /\ NamedAccount # 0
    /\ req.data.password # RegisteredPassword(req.before.users[NamedAccount])

\* C3: a registration whose email or username is already stored is answered
\* 409 and leaves the users table as it was, in both register handlers.
C3_DuplicateRejected ==
    ( /\ req.op = "register"
      /\ req.fault = "none"
      /\ ~Falsy(req.data.username) /\ ~Falsy(req.data.email) /\ ~Falsy(req.data.password)
      /\ \E i \in 1..Len(req.before.users) :
            \/ req.before.users[i].email = req.data.email
            \/ req.before.users[i].username = req.data.username )
    => (resp.status = 409 /\ users = req.before.users)

\* C4 as claimed: a login naming a stored account with another password than
\* the registered one is answered 401 and gets no access token.
C4_WrongPassword401 ==
    WrongPasswordLogin => (resp.status = 401 /\ resp.access_token = NoToken)

\* C4 as amended: such a login, when the handler serves it, never gets an access
\* token; it is answered 401, except that app.py's login answers 400 ('Missing
\* credentials') when the password sent is the empty string.
C4_WrongPasswordNoToken ==
    (WrongPasswordLogin /\ resp.invoked = 1) =>
        /\ resp.access_token = NoToken
        /\ tokens = req.before.tokens
        /\ resp.status = (IF req.app = "app" /\ req.data.password = "" THEN 400 ELSE 401)

C4_Witness ==
    /\ WrongPasswordLogin /\ req.app = "v1" /\ resp.invoked = 1
    /\ req.data.password = "" /\ RegisteredPassword(req.before.users[NamedAccount]) = "pw1"
    /\ resp.status = 401 /\ resp.access_token = NoToken

\* C8: the role the gates read from a token issued by login / register is the
\* stored role of the account it was issued to, and an admin's token passes
\* require_role('admin').
C8_TokenCarriesRole ==
    /\ \A tok \in tokens :
          tok.sub \in 1..Len(users) => ClaimedRole(tok) = users[tok.sub].role
    /\ ( /\ req.op = "require_role" /\ TokenValid /\ "admin" \in req.roles
         /\ req.token.sub \in 1..Len(users)
         /\ users[req.token.sub].role = "admin" )
       => (resp.status # 403 /\ resp.invoked = 1)

\* C9: a request that ends in an error leaves the persisted records as they
\* were before it.
C9_FailedRequestRolledBack ==
    (req.op \in {"register", "login"} /\ resp.status >= 400) =>
        /\ users = req.before.users
        /\ documents = req.before.documents
        /\ queries = req.before.queries

\* The record a GET /documents/<id> or GET /queries/<id> request names, as
\* stored when the request arrived
NamedTable == IF req.op = "get_document" THEN req.before.documents ELSE req.before.queries

\* The request presents a valid token of one account for a stored record that
\* belongs to another account.
CrossAccountRead ==
    /\ req.op \in {"get_document", "get_query"}
    /\ TokenValid
    /\ req.id \in 1..Len(NamedTable)
    /\ NamedTable[req.id].user_id # get_jwt_identity(req.token)

\* C2: a GET of a document or a query with a valid token of an account that
\* does not own the record answers 404 not-found, never the record's content
\* and never 403.
C2_CrossAccountNotFound ==
    CrossAccountRead =>
        /\ resp.status = 404
        /\ resp.data = <<>>
        /\ resp.body \in {"Document not found", "Query not found"}

C2_Witness ==
    /\ CrossAccountRead /\ req.op = "get_query"
    /\ req.token = viewer_token
    /\ req.before.queries[req.id].user_id = admin_user.id
    /\ req.before.queries[req.id].status = "completed"
    /\ resp.status = 404 /\ resp.invoked = 1

ProtectedOps == {"upload_document", "list_documents", "get_document", "create_query",
                 "get_query"}

\* C5: a request to a token-protected route without a token, with a malformed
\* token or with an expired token is answered 401, the handler is not invoked,
\* no record changes and no audit entry is written.
C5_BadToken401 ==
    (req.op \in ProtectedOps /\ ~TokenValid) =>
        /\ resp.status = 401
        /\ resp.invoked = 0
        /\ documents = req.before.documents
        /\ queries = req.before.queries
        /\ users = req.before.users
        /\ audit = req.before.audit

\* The caller has already made the route's configured number of requests in
\* the window the request falls in.
LimitReached ==
    /\ req.op \in {"register", "login"} /\ req.app = "v1"
    /\ LET e == req.before.hits[<<req.op, req.caller>>]
       IN  e.count >= LimitOf(req.op) /\ req.at < e.start + WindowHours

LimiterKey == <<req.op, req.caller>>

UploadServed ==
    /\ req.op = "upload_document" /\ TokenValid /\ resp.status # 429
    /\ req.file.present

\* C12: an upload whose filename extension is outside the allow-list or whose
\* size exceeds the maximum is answered 400 and stores no document.
C12_InvalidUploadRejected ==
    (UploadServed /\ ~validate_document(req.file.filename, req.file.size)) =>
        /\ resp.status = 400
        /\ documents = req.before.documents

\* C13: an upload by an authenticated caller with a file part that has a
\* non-empty filename is answered 201 and adds exactly one document, owned by
\* the caller, with status 'processed'.
C13_UploadCreatesDocument ==
    (UploadServed /\ req.file.filename # <<>>) =>
        /\ resp.status = 201
        /\ Len(documents) = Len(req.before.documents) + 1
        /\ SubSeq(documents, 1, Len(req.before.documents)) = req.before.documents
        /\ documents[Len(documents)].user_id = get_jwt_identity(req.token)
        /\ documents[Len(documents)].status = "processed"

\* A POST /queries that reaches the handler from a caller who owns no
\* document with status 'processed'
QueryWithoutDocuments ==
    /\ req.op = "create_query" /\ TokenValid /\ resp.status # 429
    /\ ~\E i \in 1..Len(req.before.documents) :
            /\ req.before.documents[i].user_id = get_jwt_identity(req.token)
            /\ req.before.documents[i].status = "processed"

OwnDocumentIds ==
    LET own == SelectSeq(req.before.documents,
                         LAMBDA d : d.user_id = get_jwt_identity(req.token))
    IN  [i \in 1..Len(own) |-> own[i].id]

\* The ids at positions (page-1)*limit+1 .. page*limit of `ids`
WindowOf(ids, page, limit) ==
    [i \in 1..Len(SelectSeq([k \in 1..Len(ids) |-> k],
                            LAMBDA k : (page - 1) * limit < k /\ k <= page * limit))
        |-> ids[(page - 1) * limit + i]]

\* n = ceil(total / limit)
IsCeiling(n, total, limit) == n * limit >= total /\ (n - 1) * limit < total

\* C15: for every caller, page and limit, GET /documents returns the window
\* [(page-1)*limit, page*limit) of the caller's own documents in creation
\* order, with total the number of the caller's documents and pages
\* ceil(total/limit).
C15_ListIsOwnWindow ==
    (req.op = "list_documents" /\ TokenValid) =>
        /\ resp.status = 200
        /\ resp.data = WindowOf(OwnDocumentIds, req.page, req.limit)
        /\ resp.total = Len(OwnDocumentIds)
        /\ IsCeiling(resp.pages, resp.total, req.limit)

\* Within the pages that exist (and page 1 of an empty list) the listing is the
\* caller's own window.
C15_ExistingPageIsOwnWindow ==
    (req.op = "list_documents" /\ TokenValid /\ resp.status = 200) =>
        /\ resp.data = WindowOf(OwnDocumentIds, req.page, req.limit)
        /\ resp.total = Len(OwnDocumentIds)
        /\ IsCeiling(resp.pages, resp.total, req.limit)

HasCharIn(text, set) == \E i \in 1..Len(text) : text[i] \in set

InvalidProjectBody ==
    \/ Absent \in {req.data.project_id, req.data.title, req.data.agency}
    \/ req.data.title = ""
    \/ req.data.budget \notin {Absent, "1000"}

\* C18: a request whose body lacks a required field or carries a malformed
\* value is answered 400, never 500, and creates or modifies no record.
C18_InvalidBody400 ==
    (req.op = "create_project" /\ TokenValid /\ InvalidProjectBody) =>
        /\ resp.status = 400
        /\ projects = req.before.projects
        /\ users = req.before.users

\* C19: two requests to the same endpoint that both end in a 500 response
\* receive the same body, whatever exception caused each.
C19_Generic500Body ==
    [][ ( /\ req.op \in {"register", "login"} /\ req'.op = req.op /\ req'.app = req.app
          /\ resp.status = 500 /\ resp'.status = 500 )
        => resp'.body = resp.body ]_vars

\* The routes behind @jwt_required() that the sessions exercise
SessionOps == {"get_user", "list_documents", "get_projects"}

C21_AuditEntryNamesCaller ==
    req.op = "audited" =>
        \A e \in BagToSet(req.written) :
            e.user_id = (IF TokenValid THEN get_jwt_identity(req.token) ELSE NoUser)

\* C22: the call wrapped by audit_action ends as the handler ended: it returns
\* what the handler returned and raises what the handler raised, also when the
\* audit entry cannot be committed.
C22_AuditTransparent ==
    req.op = "audited" =>
        /\ resp.kind = req.handler.kind
        /\ resp.status = StatusOf(req.handler)
        /\ resp.body = req.handler.body
        /\ resp.exc = req.handler.exc

\* The project the request names belongs to another account than the caller's.
ForeignProject ==
    /\ req.op \in {"analyze_policy", "analyze_cost"}
    /\ TokenValid
    /\ req.id \in 1..Len(req.before.projects)
    /\ req.before.projects[req.id].created_by # get_jwt_identity(req.token)

\* C23: an analysis asked with the token of one account for a project created
\* by another account is answered 404 without a report, stores no Analysis and
\* leaves the project as it was.
C23_ForeignProjectNotFound ==
    ForeignProject =>
        /\ resp.status = 404
        /\ resp.data = <<>>
        /\ analyses = req.before.analyses
        /\ projects = req.before.projects

PolicyAnalysed(i) ==
    \E j \in 1..Len(analyses) :
        analyses[j].project_id = i /\ analyses[j].analysis_type = "policy"

\* C27: a project has status 'analysis' exactly when a 'policy' Analysis is
\* stored for it (and status 'draft' otherwise); a failed analyze_policy
\* changes neither table and analyze_cost never changes a project.
C27_StatusFollowsPolicyAnalysis ==
    /\ \A i \in 1..Len(projects) :
            /\ projects[i].status \in {"draft", "analysis"}
            /\ projects[i].status = "analysis" <=> PolicyAnalysed(i)
    /\ (req.op = "analyze_policy" /\ resp.status # 200) =>
            (projects = req.before.projects /\ analyses = req.before.analyses)
    /\ req.op = "analyze_cost" => projects = req.before.projects

C27_Witness ==
    /\ req.op = "analyze_policy" /\ req.fault = "commit" /\ resp.status = 500
    /\ req.id \in 1..Len(projects)
    /\ projects[req.id].status = "draft"
    /\ \E i \in 1..Len(projects) : projects[i].status = "analysis"

\* The roles an account of the deployed application can have
AccountRoles == IF variant = "v1" THEN Roles ELSE {"admin", "analyst"}

\* C24: the role of every stored account is one of the roles of the
\* application, whatever bodies the registration endpoint was sent.
C24_RolesClosed == \A i \in 1..Len(users) : users[i].role \in AccountRoles

\* C25: a login answered 200 with a token sets the account's last_login to the
\* time of that login, and a login answered 400 or 401 leaves the users table
\* as it was, in both login handlers.
C25_LoginSetsLastLogin ==
    /\ (req.op = "login" /\ resp.status = 200 /\ resp.access_token # NoToken) =>
            /\ NamedAccount # 0
            /\ users[NamedAccount].last_login = req.at
    /\ (req.op = "login" /\ resp.status \in {400, 401}) => users = req.before.users

\* A login with the registered password of an account whose active flag is False
InactiveLogin ==
    /\ req.op = "login"
    /\ req.data.password \notin {Absent, None}
    /\ NamedAccount # 0
    /\ ~req.before.users[NamedAccount].active
    /\ req.data.password = RegisteredPassword(req.before.users[NamedAccount])

\* C28: a login with the correct password of an inactive account is answered
\* 401, gets no token and leaves last_login as it was, in both login handlers.
C28_InactiveNoToken ==
    InactiveLogin =>
        /\ resp.status = 401
        /\ resp.access_token = NoToken
        /\ tokens = req.before.tokens
        /\ users = req.before.users

\* The block's body completed and the store accepted the commit.
ScopeSucceeds ==
    /\ scope.body = "return"
    /\ scope.fault = "none"
    /\ ~IntegrityError(scope.before, scope.row)

\* The exception the block ends with when it does not succeed
ScopeException ==
    IF scope.body # "return" THEN scope.body
    ELSE IF scope.fault = "commit" THEN "OperationalError" ELSE "IntegrityError"

Count(calls, name) == Cardinality({i \in 1..Len(calls) : calls[i] = name})

\* C26: a session_scope block whose body completes commits exactly once; one
\* whose body or commit raises ends with its transaction rolled back, nothing
\* committed and that same exception raised; on every path session.close() is
\* the last call, made once, after the commit or rollback.
C26_SessionScope ==
    /\ scope.pc = "done" =>
            /\ Count(scope.calls, "close") = 1
            /\ scope.calls[Len(scope.calls)] = "close"
            /\ IF ScopeSucceeds
               THEN /\ scope.calls = <<"commit", "close">>
                    /\ scope.tx = "committed"
                    /\ users = Append(scope.before, scope.row)
                    /\ scope.raised = "none"
               ELSE /\ scope.tx = "rolled back"
                    /\ users = scope.before
                    /\ scope.raised = ScopeException
                    /\ ScopeException \in Exceptions =>
                            scope.calls[Len(scope.calls) - 1] = "rollback"
    /\ scope.pc \in {"body", "commit", "rollback", "close"} =>
            /\ Count(scope.calls, "close") = 0
            /\ Count(scope.calls, "commit") <= 1
            /\ scope.tx # "committed" => users = scope.before

C26_Witness ==
    /\ scope.pc = "done"
    /\ scope.body = "return"
    /\ scope.calls = <<"commit", "rollback", "close">>
    /\ scope.raised = "IntegrityError"
    /\ Len(users) = 1

\* C29: when require_permission(p) admits the role of a token, it admits every
\* role whose ROLE_HIERARCHY entry lists that role: a role holds every
\* permission of the roles placed below it.
C29_HierarchyMonotone ==
    (req.op = "require_permission" /\ TokenValid /\ resp.invoked = 1) =>
        \A r \in Roles :
            ClaimedRole(req.token) \in ROLE_HIERARCHY(r) =>
                /\ PERMISSIONS(ClaimedRole(req.token)) \subseteq PERMISSIONS(r)
                /\ require_permission(req.permission, [req.token EXCEPT !.role = r],
                                      req.at, req.handler).invoked = 1

\* C30: processed_documents + failed_documents is the number of
\* process_document calls made; each call, whether it returns a completed
\* result, returns 'Invalid format' or raises, increments exactly one of the
\* two counters by one; get_statistics reports that number as total, with
\* successful + failed = total.
C30_CountersMatchCalls ==
    /\ processor.processed_documents + processor.failed_documents = processor.calls
    /\ req.op = "process_document" =>
            LET dp == processor.processed_documents - req.self.processed_documents
                df == processor.failed_documents - req.self.failed_documents
            IN  /\ <<dp, df>> \in {<<1, 0>>, <<0, 1>>}
                /\ dp = 1 <=> resp.body = "completed"
    /\ req.op = "get_statistics" =>
            /\ resp.data[1] = processor.calls
            /\ resp.data[2] + resp.data[3] = resp.data[1]
            /\ resp.data[2] = processor.processed_documents

C30_Witness ==
    /\ req.op = "get_statistics"
    /\ resp.data = <<3, 1, 2>>
    /\ processor.calls = 3

====
